---- MODULE Spec2Model ----
(***************************************************************************)
(* Manuscript peer-review workflow of academia-flow-server: the handlers   *)
(* of the manuscript routes, the collections they read and write, and the  *)
(* notifications they create.                                              *)
(*                                                                         *)
(* A handler is a chain of awaited database calls, and the server          *)
(* interleaves the handlers of concurrent requests at every await.  An     *)
(* action of the model is a database call on the Manuscript or Review      *)
(* collection together with the code that follows it up to the next such   *)
(* call.  Calls that commute with every step of every other request are    *)
(* part of the action they are awaited in:                                 *)
(*   - the reads of the user directory (protect, the name lookups, the     *)
(*     reviewer and admin queries): no action of the model writes it;      *)
(*   - the Notification.create calls: no handler of the workflow reads     *)
(*     the Notification collection;                                        *)
(*   - findById when the handler uses only that the document exists and    *)
(*     its submittedBy: documents are never deleted and submittedBy is     *)
(*     never written.                                                      *)
(* So submitManuscript, assignReviewers and updateManuscriptStatus are     *)
(* one action each; submitReview and makeDecision, which read the status,  *)
(* the assigned reviewers or the reviews and write later, are several.     *)
(*                                                                         *)
(* A save() of a loaded document writes the fields the handler assigned    *)
(* (assignedReviewers and status in assignReviewers, status in             *)
(* submitReview and makeDecision) and leaves the others as stored.         *)
(***************************************************************************)
EXTENDS Integers, Sequences, FiniteSets, Bags, TLC

(***************************************************************************)
(* Bounds of the model.                                                    *)
(***************************************************************************)
MaxReviewerIds == 2    \* length of a reviewerIds request array
MaxCopies == 1         \* notifications counted per user and read flag

(***************************************************************************)
(* The user directory: registered users and their roles.                   *)
(***************************************************************************)
ADMIN == "admin"
AUTHOR == "author"
REVIEWER == "reviewer"
EDITOR == "editor"
UserRole == {ADMIN, AUTHOR, REVIEWER, EDITOR}

Users == {"a1", "r1", "r2", "e1", "ad1"}

role ==
  [u \in Users |->
     CASE u = "a1" -> AUTHOR
       [] u \in {"r1", "r2"} -> REVIEWER
       [] u = "e1" -> EDITOR
       [] OTHER -> ADMIN]

\* requests of several awaited steps the server is handling at a time
Procs == {"p1", "p2"}

SUBMITTED == "SUBMITTED"
UNDER_REVIEW == "UNDER_REVIEW"
DECISION_READY == "DECISION_READY"
ACCEPTED == "ACCEPTED"
REJECTED == "REJECTED"
ManuscriptStatus == {SUBMITTED, UNDER_REVIEW, DECISION_READY, ACCEPTED, REJECTED}

\* ids of the documents Manuscript.create can store
ManuscriptIds == {"m1"}

\* the value findById yields for an id that is not stored
Null == [status |-> "null", assignedReviewers |-> <<>>, submittedBy |-> "null"]

\* outcomes of a request
Ok == "Ok"
ValidationError == "ValidationError"          \* 400
AuthorizationError == "AuthorizationError"    \* 403
NotFoundError == "NotFoundError"              \* 404
ConflictError == "ConflictError"              \* 400, duplicate review
StateError == "StateError"                    \* 400, wrong manuscript status
ServerError == "ServerError"                  \* 500, a rejected database call

VARIABLES
  manuscripts,     \* Manuscript collection: id -> document or Null
  reviews,         \* Review collection: bag of [manuscriptId, reviewerId]
  notifications,   \* Notification collection: bag of [userId, isRead]
  isActive,        \* User.isActive
  procs,           \* the requests in flight
  response         \* the response the last step sent, if it sent one

vars == <<manuscripts, reviews, notifications, isActive, procs, response>>

Range(s) == {s[i] : i \in 1..Len(s)}

\* the document no notification id names
NoNotification == [userId |-> "none", isRead |-> FALSE]

\* a request: the handler, its position, req.user.id, req.params.id, the
\* body, the loaded manuscript document, the targets of the notifications
\* the handler has created so far; for the notification routes the document
\* req.params.id names, req.body.userId, and the count of the bulk result
Idle ==
  [op |-> "none", pc |-> "idle", userId |-> "none", id |-> "none",
   reviewerIds |-> <<>>, decision |-> "none", status |-> "none",
   manuscript |-> Null, sent |-> EmptyBag,
   notification |-> NoNotification, target |-> "none", count |-> 0]

NoResponse == [result |-> "none", request |-> Idle, sent |-> EmptyBag]

\* res.status(...).json(...): request ends with outcome r, having created
\* the notifications for the targets sent
Respond(request, r, sent) ==
  response' = [result |-> r, request |-> [request EXCEPT !.pc = "idle"],
               sent |-> sent]

At(p, op, pc) == procs[p].op = op /\ procs[p].pc = pc

(***************************************************************************)
(* The inputs of the requests.                                             *)
(***************************************************************************)
\* ids a request can name: the ids of the collection and one never stored
RequestIds == ManuscriptIds \cup {"m0"}

\* user ids a reviewerIds array can hold: the reviewers and one other user
IdPool == {u \in Users : role[u] = REVIEWER} \cup {"a1"}

ReviewerIdLists ==
  UNION {[1..n -> IdPool] : n \in 0..MaxReviewerIds}

\* req.body.status: a defined value, an undefined one, or none ("")
StatusInputs == ManuscriptStatus \cup {"PUBLISHED", ""}
DecisionInputs == {ACCEPTED, REJECTED, "PENDING"}

(***************************************************************************)
(* Middleware in front of every handler.                                   *)
(***************************************************************************)
\* protect: the user of the token is loaded and must be active
protect_Anyone(u) == TRUE
protect(u) == isActive[u]

\* authorize(...roles): the user's role must be one of roles
authorize_Anyone(u, roles) == TRUE
authorize(u, roles) == role[u] \in roles

\* router.use(protect) followed by authorize(...roles) of the route
Gate(u, roles) == protect(u) /\ authorize(u, roles)

(***************************************************************************)
(* The notifications of a handler.  Every Notification.create is awaited   *)
(* after the one before it, the creates of a Promise.all fan-out together. *)
(* A create is a database write and can be rejected; the rejection leaves  *)
(* the handler through catchAsync with a 500, and the creates issued       *)
(* before it, and any of those issued with it, stay stored.                *)
(*                                                                         *)
(* stages is the sequence of target sets, one set per await.               *)
(***************************************************************************)
AdminsAndEditors_AdminsOnly == {u \in Users : role[u] = ADMIN}
AdminsAndEditors == {u \in Users : role[u] \in {ADMIN, EDITOR}}
Admins_WithEditors == {u \in Users : role[u] \in {ADMIN, EDITOR}}
Admins == {u \in Users : role[u] = ADMIN}

RECURSIVE Flatten(_)
Flatten(stages) ==
  IF stages = <<>> THEN EmptyBag
  ELSE SetToBag(Head(stages)) (+) Flatten(Tail(stages))

\* the targets whose notification is stored when a create is rejected
PartialDeliveries(stages) ==
  UNION {{Flatten(SubSeq(stages, 1, i - 1)) (+) SetToBag(part) :
            part \in (SUBSET stages[i]) \ {stages[i]}} :
         i \in 1..Len(stages)}

Notif(u) == [userId |-> u, isRead |-> FALSE]

\* the collection with an unread notification added for every target; the
\* model counts the equal documents of the collection up to MaxCopies
Created(targets) ==
  LET new == {Notif(t) : t \in BagToSet(targets)}
      all == BagToSet(notifications) \cup new
      Count(n) == (IF n \in BagToSet(notifications) THEN notifications[n] ELSE 0)
                  + (IF n \in new THEN targets[n.userId] ELSE 0)
  IN [n \in all |-> IF Count(n) > MaxCopies THEN MaxCopies ELSE Count(n)]

\* the outcomes of a handler's notifications: every create stored, or, when
\* a create is rejected (fault), only part of them
NotifyOutcomes(stages, fault) ==
  IF fault
  THEN {[sent |-> part, delivered |-> FALSE] : part \in PartialDeliveries(stages)}
  ELSE {[sent |-> Flatten(stages), delivered |-> TRUE]}

\* the handler creates its notifications and responds with Ok, or a create
\* is rejected and the request ends with a 500
NotifyAndRespond(request, stages, fault) ==
  \E o \in NotifyOutcomes(stages, fault) :
     /\ notifications' = Created(o.sent)
     /\ Respond(request, IF o.delivered THEN Ok ELSE ServerError, o.sent)

\* a request that is rejected before its handler writes anything
Reject(request, r) ==
  /\ Respond(request, r, EmptyBag)
  /\ UNCHANGED <<manuscripts, reviews, notifications, isActive, procs>>

(***************************************************************************)
(* submitManuscript: POST /api/manuscripts/submit                          *)
(* file: the upload is present; fields: title, abstract and keywords are   *)
(***************************************************************************)
StoredIds == {m \in ManuscriptIds : manuscripts[m] # Null}

submitManuscript(u, file, fields, fault) ==
  LET request == [Idle EXCEPT !.op = "submitManuscript", !.userId = u]
  IN IF ~file THEN Reject(request, ValidationError)
     ELSE IF ~fields THEN Reject(request, ValidationError)
     ELSE /\ StoredIds # ManuscriptIds
          /\ LET new == CHOOSE m \in ManuscriptIds : m \notin StoredIds
                 manuscript == [status |-> SUBMITTED,
                                assignedReviewers |-> <<>>,
                                submittedBy |-> u]
             IN /\ manuscripts' = [manuscripts EXCEPT ![new] = manuscript]
                /\ NotifyAndRespond([request EXCEPT !.id = new,
                                                    !.manuscript = manuscript],
                                    <<{u}, AdminsAndEditors>>, fault)
          /\ UNCHANGED <<reviews, isActive, procs>>

(***************************************************************************)
(* assignReviewers: PUT /api/manuscripts/:id/assign-reviewers              *)
(***************************************************************************)
ActiveReviewersIn_AnyReviewer(reviewerIds) ==
  {u \in Users : u \in Range(reviewerIds) /\ role[u] = REVIEWER}
\* User.find({_id: {$in: reviewerIds}, role: REVIEWER, isActive: true})
ActiveReviewersIn(reviewerIds) ==
  {u \in Users : /\ u \in Range(reviewerIds)
                 /\ role[u] = REVIEWER
                 /\ isActive[u]}

Assigned_StatusKept(manuscript, reviewerIds) ==
  [manuscript EXCEPT !.assignedReviewers = reviewerIds]
Assigned_Appended(manuscript, reviewerIds) ==
  [manuscript EXCEPT !.assignedReviewers = @ \o reviewerIds,
                     !.status = UNDER_REVIEW]
\* the document as assignReviewers saves it
Assigned(manuscript, reviewerIds) ==
  [manuscript EXCEPT !.assignedReviewers = reviewerIds,
                     !.status = UNDER_REVIEW]

AssignNotifications_NoReviewers(manuscript, reviewerIds) ==
  <<{manuscript.submittedBy}, AdminsAndEditors>>
\* the notifications of an assignment, await by await: the author, the
\* reviewers of the request, the admins and editors
AssignNotifications(manuscript, reviewerIds) ==
  <<{manuscript.submittedBy}, Range(reviewerIds), AdminsAndEditors>>

assignReviewers_SaveFirst(u, id, reviewerIds, fault) ==
  LET request == [Idle EXCEPT !.op = "assignReviewers", !.userId = u,
                              !.id = id, !.reviewerIds = reviewerIds]
  IN IF Len(reviewerIds) = 0 THEN Reject(request, ValidationError)
     ELSE IF manuscripts[id] = Null THEN Reject(request, NotFoundError)
     ELSE LET manuscript == Assigned(manuscripts[id], reviewerIds)
          IN /\ manuscripts' = [manuscripts EXCEPT ![id] = manuscript]
             /\ IF Cardinality(ActiveReviewersIn(reviewerIds)) # Len(reviewerIds)
                THEN /\ Respond(request, ValidationError, EmptyBag)
                     /\ UNCHANGED notifications
                ELSE NotifyAndRespond([request EXCEPT !.manuscript = manuscript],
                                      AssignNotifications(manuscript, reviewerIds), fault)
             /\ UNCHANGED <<reviews, isActive, procs>>
\* the handler: the body, the manuscript and the reviewers are checked, the
\* assignment is saved, the notifications are created
assignReviewers(u, id, reviewerIds, fault) ==
  LET request == [Idle EXCEPT !.op = "assignReviewers", !.userId = u,
                              !.id = id, !.reviewerIds = reviewerIds]
  IN IF Len(reviewerIds) = 0 THEN Reject(request, ValidationError)
     ELSE IF manuscripts[id] = Null THEN Reject(request, NotFoundError)
     ELSE IF Cardinality(ActiveReviewersIn(reviewerIds)) # Len(reviewerIds)
          THEN Reject(request, ValidationError)
     ELSE LET manuscript == Assigned(manuscripts[id], reviewerIds)
          IN /\ manuscripts' = [manuscripts EXCEPT ![id] = manuscript]
             /\ NotifyAndRespond([request EXCEPT !.manuscript = manuscript],
                                 AssignNotifications(manuscript, reviewerIds), fault)
             /\ UNCHANGED <<reviews, isActive, procs>>

(***************************************************************************)
(* updateManuscriptStatus: PUT /api/manuscripts/:id/status                 *)
(***************************************************************************)
validStatus_NonEmpty(status) == status # ""
\* status && Object.values(ManuscriptStatus).includes(status)
validStatus(status) == status # "" /\ status \in ManuscriptStatus

StatusUpdate_Unassigned(manuscript, status) ==
  [manuscript EXCEPT !.status = status, !.assignedReviewers = <<>>]
\* the document after findByIdAndUpdate(id, {status})
StatusUpdate(manuscript, status) == [manuscript EXCEPT !.status = status]

updateManuscriptStatus(u, id, status) ==
  LET request == [Idle EXCEPT !.op = "updateManuscriptStatus", !.userId = u,
                              !.id = id, !.status = status]
  IN IF ~validStatus(status) THEN Reject(request, ValidationError)
     ELSE IF manuscripts[id] = Null THEN Reject(request, NotFoundError)
     ELSE LET manuscript == StatusUpdate(manuscripts[id], status)
          IN /\ manuscripts' = [manuscripts EXCEPT ![id] = manuscript]
             /\ Respond([request EXCEPT !.manuscript = manuscript], Ok, EmptyBag)
             /\ UNCHANGED <<reviews, notifications, isActive, procs>>

(***************************************************************************)
(* submitReview: POST /api/manuscripts/:id/submit-review                   *)
(***************************************************************************)
isAssigned_AnyReviewer(manuscript, userId) ==
  Len(manuscript.assignedReviewers) > 0
\* manuscript.assignedReviewers.some(reviewerId => reviewerId.toString() === userId)
isAssigned(manuscript, userId) ==
  \E i \in 1..Len(manuscript.assignedReviewers) :
     manuscript.assignedReviewers[i] = userId

\* the handler up to its Review.findOne: the manuscript is loaded
submitReview_Find(p, u, id) ==
  LET request == [Idle EXCEPT !.op = "submitReview", !.userId = u, !.id = id]
      manuscript == manuscripts[id]
  IN /\ procs[p] = Idle
     /\ IF manuscript = Null THEN Reject(request, NotFoundError)
        ELSE IF ~isAssigned(manuscript, u)
             THEN Reject([request EXCEPT !.manuscript = manuscript],
                         AuthorizationError)
        ELSE /\ procs' = [procs EXCEPT ![p] =
                            [request EXCEPT !.manuscript = manuscript,
                                            !.pc = "findReview"]]
             /\ response' = NoResponse
             /\ UNCHANGED <<manuscripts, reviews, notifications, isActive>>

Review(id, userId) == [manuscriptId |-> id, reviewerId |-> userId]

existingReview_OfManuscript(id, userId) ==
  \E u \in Users \ {userId} : BagIn(Review(id, u), reviews)
\* Review.findOne({manuscriptId: id, reviewerId: userId})
existingReview(id, userId) == BagIn(Review(id, userId), reviews)

submitReview_FindReview_NoLookup(p) ==
  /\ At(p, "submitReview", "findReview")
  /\ procs' = [procs EXCEPT ![p].pc = "createReview"]
  /\ response' = NoResponse
  /\ UNCHANGED <<manuscripts, reviews, notifications, isActive>>
\* the lookup of the reviewer's review of the manuscript: found, 400
submitReview_FindReview(p) ==
  /\ At(p, "submitReview", "findReview")
  /\ IF existingReview(procs[p].id, procs[p].userId)
     THEN /\ Respond(procs[p], ConflictError, EmptyBag)
          /\ procs' = [procs EXCEPT ![p] = Idle]
     ELSE /\ procs' = [procs EXCEPT ![p].pc = "createReview"]
          /\ response' = NoResponse
  /\ UNCHANGED <<manuscripts, reviews, notifications, isActive>>

ReviewNotifications(manuscript) ==
  <<{manuscript.submittedBy}, AdminsAndEditors>>

Inserted_Unique(review) ==
  IF BagIn(review, reviews) THEN reviews ELSE reviews (+) SetToBag({review})
\* the Review collection after Review.create(review)
Inserted(review) == reviews (+) SetToBag({review})

\* Review.create, then the notifications.  The index of the collection on
\* (manuscriptId, reviewerId) is not unique: the insert never rejects a
\* second review of the pair
submitReview_CreateReview(p, fault) ==
  /\ At(p, "submitReview", "createReview")
  /\ reviews' = Inserted(Review(procs[p].id, procs[p].userId))
  /\ \E o \in NotifyOutcomes(ReviewNotifications(procs[p].manuscript), fault) :
        /\ notifications' = Created(o.sent)
        /\ IF o.delivered
           THEN /\ procs' = [procs EXCEPT ![p].pc = "count",
                                           ![p].sent = o.sent]
                /\ response' = NoResponse
           ELSE /\ Respond(procs[p], ServerError, o.sent)
                /\ procs' = [procs EXCEPT ![p] = Idle]
  /\ UNCHANGED <<manuscripts, isActive>>

countDocuments_BeforeInsert(id) ==
  BagCardinality([r \in {x \in DOMAIN reviews : x.manuscriptId = id} |->
                    reviews[r]]) - 1
countDocuments_Assigned(id) == Len(manuscripts[id].assignedReviewers)
\* Review.countDocuments({manuscriptId: id})
countDocuments(id) ==
  LET of(u) == IF BagIn(Review(id, u), reviews)
               THEN CopiesIn(Review(id, u), reviews) ELSE 0
      sum[S \in SUBSET Users] ==
        IF S = {} THEN 0
        ELSE LET u == CHOOSE x \in S : TRUE IN of(u) + sum[S \ {u}]
  IN sum[Users]

escalation_Reset(manuscript, totalReviews) ==
  IF totalReviews >= Len(manuscript.assignedReviewers) THEN DECISION_READY
  ELSE UNDER_REVIEW
\* the status of the loaded document after the comparison of the counts
escalation(manuscript, totalReviews) ==
  LET totalAssignedReviewers == Len(manuscript.assignedReviewers)
  IN IF totalReviews >= totalAssignedReviewers THEN DECISION_READY
     ELSE IF manuscript.status = SUBMITTED THEN UNDER_REVIEW
     ELSE manuscript.status

escalationSaves_Never(manuscript, totalReviews) == FALSE
\* whether the handler takes one of its two branches with manuscript.save()
escalationSaves(manuscript, totalReviews) ==
  \/ totalReviews >= Len(manuscript.assignedReviewers)
  \/ manuscript.status = SUBMITTED

submitReview_Count(p) ==
  /\ At(p, "submitReview", "count")
  /\ LET totalReviews == countDocuments(procs[p].id)
         manuscript == procs[p].manuscript
         updated == [procs[p] EXCEPT !.manuscript.status =
                                        escalation(manuscript, totalReviews)]
     IN IF escalationSaves(manuscript, totalReviews)
        THEN /\ procs' = [procs EXCEPT ![p] = [updated EXCEPT !.pc = "save"]]
             /\ response' = NoResponse
        ELSE /\ Respond(updated, Ok, Flatten(ReviewNotifications(manuscript)))
             /\ procs' = [procs EXCEPT ![p] = Idle]
  /\ UNCHANGED <<manuscripts, reviews, notifications, isActive>>

submitReview_Save(p) ==
  /\ At(p, "submitReview", "save")
  /\ manuscripts' = [manuscripts EXCEPT ![procs[p].id].status =
                       procs[p].manuscript.status]
  /\ Respond(procs[p], Ok, Flatten(ReviewNotifications(procs[p].manuscript)))
  /\ procs' = [procs EXCEPT ![p] = Idle]
  /\ UNCHANGED <<reviews, notifications, isActive>>

(***************************************************************************)
(* makeDecision: PUT /api/manuscripts/:id/decision                         *)
(***************************************************************************)
Decisions == {ACCEPTED, REJECTED}

readyForDecision_Undecided(manuscript) ==
  manuscript.status \notin {ACCEPTED, REJECTED}
\* the status the handler requires of the loaded document
readyForDecision(manuscript) == manuscript.status = DECISION_READY

\* the handler up to its manuscript.save(): the manuscript is loaded
makeDecision_Find(p, u, id, decision) ==
  LET request == [Idle EXCEPT !.op = "makeDecision", !.userId = u, !.id = id,
                              !.decision = decision]
      manuscript == manuscripts[id]
  IN /\ procs[p] = Idle
     /\ IF decision \notin Decisions THEN Reject(request, ValidationError)
        ELSE IF manuscript = Null THEN Reject(request, NotFoundError)
        ELSE IF ~readyForDecision(manuscript)
             THEN Reject([request EXCEPT !.manuscript = manuscript], StateError)
        ELSE /\ procs' = [procs EXCEPT ![p] =
                            [request EXCEPT
                               !.manuscript =
                                  [manuscript EXCEPT !.status =
                                     IF decision = ACCEPTED
                                     THEN ACCEPTED ELSE REJECTED],
                               !.pc = "save"]]
             /\ response' = NoResponse
             /\ UNCHANGED <<manuscripts, reviews, notifications, isActive>>

\* manuscript.save(), then the notifications
makeDecision_Save(p, fault) ==
  /\ At(p, "makeDecision", "save")
  /\ manuscripts' = [manuscripts EXCEPT ![procs[p].id].status =
                       procs[p].manuscript.status]
  /\ NotifyAndRespond(procs[p], <<{procs[p].manuscript.submittedBy}, Admins>>,
                      fault)
  /\ procs' = [procs EXCEPT ![p] = Idle]
  /\ UNCHANGED <<reviews, isActive>>

(***************************************************************************)
(* deactivateUser: PUT /api/users/:id/deactivate                           *)
(* activateUser:   PUT /api/users/:id/activate                             *)
(***************************************************************************)
\* ids an account request can name: the users and one id of no user
AccountIds == Users \cup {"u0"}

\* the handler of either route: active is the value it gives user.isActive
setActive(op, u, id, active) ==
  LET request == [Idle EXCEPT !.op = op, !.userId = u, !.id = id]
  IN IF id \notin Users THEN Reject(request, NotFoundError)
     ELSE /\ isActive' = [isActive EXCEPT ![id] = active]
          /\ Respond(request, Ok, EmptyBag)
          /\ UNCHANGED <<manuscripts, reviews, notifications, procs>>

deactivateUser(u, id) == setActive("deactivateUser", u, id, FALSE)

activateUser(u, id) == setActive("activateUser", u, id, TRUE)

(***************************************************************************)
(* getReviewerStats: GET /api/manuscripts/reviewer-stats                   *)
(***************************************************************************)
\* Manuscript.find({assignedReviewers: reviewerId}).length
totalAssigned(reviewerId) ==
  Cardinality({m \in ManuscriptIds :
                 /\ manuscripts[m] # Null
                 /\ reviewerId \in Range(manuscripts[m].assignedReviewers)})

\* Review.countDocuments({reviewerId})
completedReviews(reviewerId) ==
  BagCardinality([r \in {x \in DOMAIN reviews : x.reviewerId = reviewerId} |->
                    reviews[r]])

pendingReviews(reviewerId) ==
  totalAssigned(reviewerId) - completedReviews(reviewerId)

\* the response carries pendingReviews in count
getReviewerStats(u) ==
  /\ Respond([Idle EXCEPT !.op = "getReviewerStats", !.userId = u,
                          !.count = pendingReviews(u)], Ok, EmptyBag)
  /\ UNCHANGED <<manuscripts, reviews, notifications, isActive, procs>>

(***************************************************************************)
(* The notification routes: /api/notifications                             *)
(*                                                                         *)
(* A count of the collection that has reached MaxCopies stands for         *)
(* MaxCopies documents or more: taking one document away from it leaves    *)
(* MaxCopies - 1 or, when there were more, MaxCopies.                      *)
(***************************************************************************)
\* req.body.userId of a createNotification: a user, the id of no user, none
TargetIds == Users \cup {"u0", ""}

\* what req.params.id of a notification route names: a document of the
\* collection, or none
NotificationRefs ==
  {[userId |-> t, isRead |-> b] : t \in Users \cup {"u0"}, b \in BOOLEAN}
    \cup {NoNotification}

CountOf(n) == IF BagIn(n, notifications) THEN CopiesIn(n, notifications) ELSE 0

\* the collection with the count of n set to c
WithCount(collection, n, c) ==
  [m \in (DOMAIN collection \ {n}) \cup (IF c > 0 THEN {n} ELSE {}) |->
     IF m = n THEN (IF c > MaxCopies THEN MaxCopies ELSE c) ELSE collection[m]]

\* the collections one document n of the collection can leave behind
Without(n) ==
  {WithCount(notifications, n, c) :
     c \in {CountOf(n) - 1} \cup (IF CountOf(n) = MaxCopies
                                   THEN {MaxCopies} ELSE {})}

createNotification(u, userId, message) ==
  LET request == [Idle EXCEPT !.op = "createNotification", !.userId = u,
                              !.target = userId]
  IN IF userId = "" \/ ~message THEN Reject(request, ValidationError)
     ELSE /\ notifications' = Created(SetToBag({userId}))
          /\ Respond(request, Ok, SetToBag({userId}))
          /\ UNCHANGED <<manuscripts, reviews, isActive, procs>>

Owned_ByAnyone(u, n) == BagIn(n, notifications)
\* Notification.findOne({_id: id, userId}) finds the document
Owned(u, n) == BagIn(n, notifications) /\ n.userId = u

markAsRead(u, n) ==
  LET request == [Idle EXCEPT !.op = "markAsRead", !.userId = u,
                              !.notification = n]
  IN IF ~Owned(u, n) THEN Reject(request, NotFoundError)
     ELSE LET read == [n EXCEPT !.isRead = TRUE]
          IN /\ \E rest \in Without(n) :
                   notifications' =
                     WithCount(rest, read,
                               (IF BagIn(read, rest) THEN rest[read] ELSE 0) + 1)
             /\ Respond(request, Ok, EmptyBag)
             /\ UNCHANGED <<manuscripts, reviews, isActive, procs>>

\* the collection after updateMany({userId, isRead: false}, {isRead: true})
AllRead_OfEveryone(userId) ==
  LET unread == {n \in DOMAIN notifications : ~n.isRead}
  IN [n \in (DOMAIN notifications \ unread)
            \cup {[m EXCEPT !.isRead = TRUE] : m \in unread} |->
        IF CountOf(n) + CountOf([n EXCEPT !.isRead = FALSE]) > MaxCopies
        THEN MaxCopies
        ELSE CountOf(n) + CountOf([n EXCEPT !.isRead = FALSE])]
AllRead(userId) ==
  LET unread == [userId |-> userId, isRead |-> FALSE]
      read == [userId |-> userId, isRead |-> TRUE]
  IN WithCount(WithCount(notifications, unread, 0), read,
               CountOf(read) + CountOf(unread))

markAllAsRead(u) ==
  LET request == [Idle EXCEPT !.op = "markAllAsRead", !.userId = u,
                              !.count = CountOf(Notif(u))]
  IN /\ notifications' = AllRead(u)
     /\ Respond(request, Ok, EmptyBag)
     /\ UNCHANGED <<manuscripts, reviews, isActive, procs>>

deleteNotification(u, n) ==
  LET request == [Idle EXCEPT !.op = "deleteNotification", !.userId = u,
                              !.notification = n]
  IN IF ~Owned(u, n) THEN Reject(request, NotFoundError)
     ELSE /\ notifications' \in Without(n)
          /\ Respond(request, Ok, EmptyBag)
          /\ UNCHANGED <<manuscripts, reviews, isActive, procs>>

deleteAllNotifications(u) ==
  LET unread == [userId |-> u, isRead |-> FALSE]
      read == [userId |-> u, isRead |-> TRUE]
      request == [Idle EXCEPT !.op = "deleteAllNotifications", !.userId = u,
                              !.count = CountOf(read) + CountOf(unread)]
  IN /\ notifications' = WithCount(WithCount(notifications, unread, 0), read, 0)
     /\ Respond(request, Ok, EmptyBag)
     /\ UNCHANGED <<manuscripts, reviews, isActive, procs>>

(***************************************************************************)
(* The system.                                                             *)
(***************************************************************************)
Init ==
  /\ manuscripts = [m \in RequestIds |-> Null]
  /\ reviews = EmptyBag
  /\ notifications = EmptyBag
  /\ isActive = [u \in Users |-> TRUE]
  /\ procs = [p \in Procs |-> Idle]
  /\ response = NoResponse

\* the requests the server is sent: who calls the author, editor and reviewer
\* routes, with which parameters and bodies, whether a notification create
\* is rejected, and whether a request arrives while another is in flight
AllRequests ==
  [authors |-> Users, editors |-> Users, reviewers |-> Users,
   ids |-> RequestIds, reviewerIds |-> ReviewerIdLists,
   statuses |-> StatusInputs, decisions |-> DecisionInputs,
   present |-> BOOLEAN, faults |-> BOOLEAN, concurrent |-> TRUE,
   admins |-> Users, accounts |-> AccountIds,
   owners |-> Users, notifications |-> NotificationRefs,
   targets |-> TargetIds, reassign |-> TRUE]

Accepts(in) == in.concurrent \/ \A q \in Procs : procs[q] = Idle

\* a request that protect or authorize ends before the handler of its route
Forbidden(op, u) ==
  Reject([Idle EXCEPT !.op = op, !.userId = u], AuthorizationError)

\* no reviewer is assigned to manuscript id
Unassigned(id) ==
  id \notin ManuscriptIds \/ Len(manuscripts[id].assignedReviewers) = 0

\* the operations of the workflow, each behind the gate of its route; the
\* requests to assign reviewers where some are assigned come when
\* in.reassign
Workflow(in) ==
  \/ /\ Accepts(in)
     /\ \E u \in in.authors :
          IF Gate(u, {AUTHOR})
          THEN \E file \in in.present, fields \in in.present, fault \in in.faults :
                 submitManuscript(u, file, fields, fault)
          ELSE Forbidden("submitManuscript", u)
  \/ /\ Accepts(in)
     /\ \E u \in in.editors :
          IF Gate(u, {EDITOR, ADMIN})
          THEN \E id \in in.ids, reviewerIds \in in.reviewerIds,
                  fault \in in.faults :
                 /\ in.reassign \/ Unassigned(id)
                 /\ assignReviewers(u, id, reviewerIds, fault)
          ELSE Forbidden("assignReviewers", u)
  \/ \E p \in Procs :
       \/ /\ Accepts(in)
          /\ procs[p] = Idle
          /\ \E u \in in.reviewers :
               IF Gate(u, {REVIEWER})
               THEN \E id \in in.ids : submitReview_Find(p, u, id)
               ELSE Forbidden("submitReview", u)
       \/ submitReview_FindReview(p)
       \/ \E fault \in in.faults : submitReview_CreateReview(p, fault)
       \/ submitReview_Count(p)
       \/ submitReview_Save(p)
       \/ /\ Accepts(in)
          /\ procs[p] = Idle
          /\ \E u \in in.editors :
               IF Gate(u, {EDITOR, ADMIN})
               THEN \E id \in in.ids, decision \in in.decisions :
                      makeDecision_Find(p, u, id, decision)
               ELSE Forbidden("makeDecision", u)
       \/ \E fault \in in.faults : makeDecision_Save(p, fault)

\* the administrative override
Override(in) ==
  /\ Accepts(in)
  /\ \E u \in in.editors :
       IF Gate(u, {EDITOR, ADMIN})
       THEN \E id \in in.ids, status \in in.statuses :
              updateManuscriptStatus(u, id, status)
       ELSE Forbidden("updateManuscriptStatus", u)

\* the administration of the accounts
Accounts(in) ==
  \/ /\ Accepts(in)
     /\ \E u \in in.admins :
          IF Gate(u, {ADMIN})
          THEN \E id \in in.accounts : deactivateUser(u, id)
          ELSE Forbidden("deactivateUser", u)
  \/ /\ Accepts(in)
     /\ \E u \in in.admins :
          IF Gate(u, {ADMIN})
          THEN \E id \in in.accounts : activateUser(u, id)
          ELSE Forbidden("activateUser", u)

\* the notification routes: protect lets every active user through, and
\* POST / is behind authorize(ADMIN)
Notifications(in) ==
  \/ /\ Accepts(in)
     /\ \E u \in in.admins :
          IF Gate(u, {ADMIN})
          THEN \E userId \in in.targets, message \in in.present :
                 createNotification(u, userId, message)
          ELSE Forbidden("createNotification", u)
  \/ /\ Accepts(in)
     /\ \E u \in in.owners :
          IF protect(u)
          THEN \E n \in in.notifications : markAsRead(u, n)
          ELSE Forbidden("markAsRead", u)
  \/ /\ Accepts(in)
     /\ \E u \in in.owners :
          IF protect(u) THEN markAllAsRead(u)
          ELSE Forbidden("markAllAsRead", u)
  \/ /\ Accepts(in)
     /\ \E u \in in.owners :
          IF protect(u)
          THEN \E n \in in.notifications : deleteNotification(u, n)
          ELSE Forbidden("deleteNotification", u)
  \/ /\ Accepts(in)
     /\ \E u \in in.owners :
          IF protect(u) THEN deleteAllNotifications(u)
          ELSE Forbidden("deleteAllNotifications", u)

\* the statistics of a reviewer
Stats(in) ==
  /\ Accepts(in)
  /\ \E u \in in.reviewers :
       IF Gate(u, {REVIEWER}) THEN getReviewerStats(u)
       ELSE Forbidden("getReviewerStats", u)

Next ==
  \/ Stats(AllRequests)
  \/ Workflow(AllRequests)
  \/ Override(AllRequests)
  \/ Accounts(AllRequests)
  \/ Notifications(AllRequests)

Spec == Init /\ [][Next]_vars

\* the requests handled one after another, every notification stored
OneByOne == [AllRequests EXCEPT !.faults = {FALSE}, !.concurrent = FALSE]

SpecOneByOne == Init /\ [][Workflow(OneByOne) \/ Override(OneByOne)]_vars

\* the requests of users entitled to them, with bodies that pass the
\* validation, on stored manuscripts, interleaved, the override never used
Reviewers == {u \in Users : role[u] = REVIEWER}

Entitled ==
  [AllRequests EXCEPT
     !.authors = {u \in Users : role[u] = AUTHOR},
     !.editors = {u \in Users : role[u] = EDITOR},
     !.reviewers = Reviewers,
     !.ids = ManuscriptIds,
     !.reviewerIds = {l \in ReviewerIdLists :
                        /\ Len(l) > 0
                        /\ Range(l) \subseteq Reviewers
                        /\ Cardinality(Range(l)) = Len(l)},
     !.decisions = Decisions,
     !.present = {TRUE},
     !.faults = {FALSE}]

SpecNoOverride == Init /\ [][Workflow(Entitled)]_vars

\* the requests handled one after another while an admin deactivates and
\* reactivates a reviewer, the override never used
WithAccounts ==
  [OneByOne EXCEPT !.admins = {u \in Users : role[u] \in {ADMIN, AUTHOR}},
                   !.accounts = {"r2", "u0"}]

SpecAccounts == Init /\ [][Workflow(WithAccounts) \/ Accounts(WithAccounts)]_vars

\* the requests of users entitled to them handled one after another, a
\* Notification.create of any of them rejected or not
WithFaults == [Entitled EXCEPT !.faults = BOOLEAN, !.concurrent = FALSE]

SpecFaults == Init /\ [][Workflow(WithFaults)]_vars

\* the workflow of users entitled to it, its requests handled one after
\* another, with the notification routes: an author and an editor read and
\* delete, an admin creates
WithNotifications ==
  [Entitled EXCEPT
     !.concurrent = FALSE,
     !.reviewerIds = {<<"r1">>},
     !.admins = {u \in Users : role[u] = ADMIN},
     !.owners = {u \in Users : role[u] \in {AUTHOR, EDITOR}},
     !.notifications = {n \in NotificationRefs :
                         n.userId \in {"a1", "e1", "none"}},
     !.targets = {"a1", "u0", ""},
     !.present = BOOLEAN]

SpecNotifications ==
  Init /\ [][Workflow(WithNotifications) \/ Notifications(WithNotifications)]_vars

\* the workflow of users entitled to it, interleaved, where reviewers are
\* assigned to a manuscript once
AssignedOnce == [Entitled EXCEPT !.reassign = FALSE]

SpecFixedSet == Init /\ [][Workflow(AssignedOnce)]_vars

\* every route, the requests handled one after another, while an admin
\* deactivates and reactivates a reviewer
Protected ==
  [WithAccounts EXCEPT
     !.authors = {u \in Users : role[u] = AUTHOR},
     !.editors = {u \in Users : role[u] = EDITOR},
     !.reviewers = Reviewers,
     !.admins = {u \in Users : role[u] = ADMIN},
     !.ids = ManuscriptIds,
     !.reviewerIds = {<<"r2">>, <<"r1", "r2">>},
     !.statuses = {UNDER_REVIEW},
     !.decisions = {ACCEPTED},
     !.present = {TRUE},
     !.owners = Reviewers,
     !.notifications = {Notif("r2")},
     !.targets = {"r2"},
     !.accounts = {"r2"}]

SpecProtected ==
  Init /\ [][\/ Workflow(Protected)
             \/ Override(Protected)
             \/ Accounts(Protected)
             \/ Notifications(Protected)]_vars

\* the workflow with the statistics, the requests handled one after another
SpecStats == Init /\ [][Workflow(OneByOne) \/ Stats(OneByOne)]_vars

(***************************************************************************)
(* Properties.                                                             *)
(*                                                                         *)
(* A step that ends a request leaves its outcome in response; a step that  *)
(* ends none leaves NoResponse.  A request is rejected by its first step   *)
(* when that step answers and no request in flight moves.                  *)
(***************************************************************************)
Answered(op) == response'.request.op = op /\ response'.result # "none"
Succeeded(op) == response'.request.op = op /\ response'.result = Ok
RejectedAtOnce(op) == Answered(op) /\ UNCHANGED procs
Admitted(p, op) == procs[p] = Idle /\ procs'[p].op = op

Terminal == {ACCEPTED, REJECTED}

rank(status) ==
  CASE status = SUBMITTED -> 1
    [] status = UNDER_REVIEW -> 2
    [] status = DECISION_READY -> 3
    [] OTHER -> 4

copies(id, u) ==
  IF [manuscriptId |-> id, reviewerId |-> u] \in DOMAIN reviews
  THEN reviews[[manuscriptId |-> id, reviewerId |-> u]] ELSE 0

reviewed(id, u) == copies(id, u) > 0

\* the number of documents of a review collection for manuscript id
reviewsOf(collection, id) ==
  BagCardinality([r \in {x \in DOMAIN collection : x.manuscriptId = id}
                    |-> collection[r]])

\* C1: when the override is never used, a status that is ACCEPTED or
\* REJECTED is never changed by a step of submit, assignReviewers,
\* submitReview or makeDecision
C1_TerminalStatusIsKept ==
  [][\A m \in ManuscriptIds :
       manuscripts[m].status \in Terminal
         => manuscripts'[m].status = manuscripts[m].status]_vars

\* C2: when the override is never used, no step moves a status backward in
\* SUBMITTED < UNDER_REVIEW < DECISION_READY < {ACCEPTED, REJECTED}, unless
\* it is a successful assignReviewers setting UNDER_REVIEW; no step of
\* submitReview or makeDecision lowers a status
C2_StatusMovesForward ==
  [][\A m \in ManuscriptIds :
       manuscripts[m] # Null
         => \/ rank(manuscripts'[m].status) >= rank(manuscripts[m].status)
            \/ /\ Succeeded("assignReviewers")
               /\ manuscripts'[m].status = UNDER_REVIEW]_vars

C4_DecisionNeedsDecisionReady ==
  [][/\ RejectedAtOnce("makeDecision") =>
          LET request == response'.request
          IN (/\ isActive[request.userId]
              /\ role[request.userId] \in {EDITOR, ADMIN}
              /\ request.decision \in {ACCEPTED, REJECTED}
              /\ manuscripts[request.id].status
                   \in ManuscriptStatus \ {DECISION_READY})
               => /\ response'.result = StateError
                  /\ response'.sent = EmptyBag
                  /\ UNCHANGED <<manuscripts, reviews, notifications>>
     /\ \A p \in Procs :
          Admitted(p, "makeDecision")
            => manuscripts[procs'[p].id].status = DECISION_READY]_vars

C4_Witness ==
  /\ response.result = StateError
  /\ response.request.op = "makeDecision"
  /\ response.request.id \in ManuscriptIds
  /\ manuscripts[response.request.id].status = ACCEPTED

\* C5: when the override is never used, a makeDecision succeeds only on a
\* manuscript on which no makeDecision has succeeded: the stored status it
\* overwrites is not ACCEPTED or REJECTED
C5_AtMostOneDecision ==
  [][Succeeded("makeDecision")
       => manuscripts[response'.request.id].status \notin Terminal]_vars

\* C6, as claimed: a submitReview of a reviewer who has a review of the
\* manuscript is answered with ConflictError and no review is created
C6_SecondReviewIsConflict ==
  [][(/\ Answered("submitReview")
      /\ isActive[response'.request.userId]
      /\ role[response'.request.userId] = REVIEWER
      /\ manuscripts[response'.request.id] # Null
      /\ \A p \in Procs : procs[p].pc \notin {"createReview", "count", "save"}
      /\ reviewed(response'.request.id, response'.request.userId))
       => /\ response'.result = ConflictError
          /\ reviews' = reviews]_vars

\* C6, amended: a submitReview of a reviewer who has a review of the
\* manuscript is answered with ConflictError if the reviewer is still
\* assigned and with AuthorizationError if not; it creates no review, and
\* no request passes the lookup of the review while one is stored
C6_SecondReviewIsRejected ==
  [][/\ (/\ Answered("submitReview")
         /\ isActive[response'.request.userId]
         /\ role[response'.request.userId] = REVIEWER
         /\ manuscripts[response'.request.id] # Null
         /\ \A p \in Procs : procs[p].pc \notin {"createReview", "count", "save"}
         /\ reviewed(response'.request.id, response'.request.userId))
          => /\ response'.result =
                  IF response'.request.userId
                       \in Range(manuscripts[response'.request.id].assignedReviewers)
                  THEN ConflictError ELSE AuthorizationError
             /\ reviews' = reviews
     /\ \A p \in Procs :
          (procs[p].pc = "findReview" /\ procs'[p].pc = "createReview")
            => ~reviewed(procs[p].id, procs[p].userId)]_vars

\* C6, the case the amendment is about: a reviewer with a review of the
\* manuscript, no longer assigned, is answered with AuthorizationError
C6_Witness ==
  /\ response.result = AuthorizationError
  /\ response.request.op = "submitReview"
  /\ response.request.id \in ManuscriptIds
  /\ manuscripts[response.request.id] # Null
  /\ reviewed(response.request.id, response.request.userId)

\* C7: no (manuscript, reviewer) pair has more than one review
C7_OneReviewPerPair ==
  \A m \in ManuscriptIds, u \in Users : copies(m, u) <= 1

\* C8: a submitReview by a reviewer who is not in the assigned reviewers of
\* the stored manuscript is answered with AuthorizationError by its first
\* step, which changes no manuscript, review or notification; no such
\* request is admitted
C8_UnassignedReviewerIsRejected ==
  [][/\ RejectedAtOnce("submitReview") =>
          LET request == response'.request
          IN (/\ isActive[request.userId]
              /\ role[request.userId] = REVIEWER
              /\ manuscripts[request.id] # Null
              /\ request.userId
                   \notin Range(manuscripts[request.id].assignedReviewers))
               => /\ response'.result = AuthorizationError
                  /\ response'.sent = EmptyBag
                  /\ UNCHANGED <<manuscripts, reviews, notifications>>
     /\ \A p \in Procs :
          Admitted(p, "submitReview")
            => procs'[p].userId
                 \in Range(manuscripts[procs'[p].id].assignedReviewers)]_vars

C8_Witness ==
  /\ response.result = AuthorizationError
  /\ response.request.op = "submitReview"
  /\ role[response.request.userId] = REVIEWER
  /\ response.request.id \in ManuscriptIds
  /\ manuscripts[response.request.id] # Null
  /\ manuscripts[response.request.id].assignedReviewers # <<>>
  /\ response.request.userId
       \notin Range(manuscripts[response.request.id].assignedReviewers)

\* C9: a successful submit stores a new manuscript with status SUBMITTED and
\* no assigned reviewers, and creates one notification for the author and
\* one for each user whose role is ADMIN or EDITOR: 1 + k in all
C9_SubmitCreatesAndNotifies ==
  [][Succeeded("submitManuscript") =>
       LET request == response'.request
           k == Cardinality({u \in Users : role[u] \in {ADMIN, EDITOR}})
       IN /\ manuscripts[request.id] = Null
          /\ manuscripts'[request.id].status = SUBMITTED
          /\ manuscripts'[request.id].assignedReviewers = <<>>
          /\ manuscripts'[request.id].submittedBy = request.userId
          /\ BagToSet(response'.sent)
               = {request.userId} \cup {u \in Users : role[u] \in {ADMIN, EDITOR}}
          /\ \A u \in BagToSet(response'.sent) : response'.sent[u] = 1
          /\ BagCardinality(response'.sent) = 1 + k
          /\ \A u \in BagToSet(response'.sent) :
               [userId |-> u, isRead |-> FALSE] \in DOMAIN notifications']_vars

C9_Witness ==
  /\ response.result = Ok
  /\ response.request.op = "submitManuscript"
  /\ manuscripts[response.request.id].status = SUBMITTED
  /\ BagCardinality(response.sent) = 3

\* C10: a successful assignReviewers makes the assigned reviewers exactly
\* the supplied ids, sets the status to UNDER_REVIEW whatever it was, and
\* leaves the reviews as they were
C10_AssignReplaces ==
  [][Succeeded("assignReviewers") =>
       LET request == response'.request
       IN /\ manuscripts'[request.id].assignedReviewers = request.reviewerIds
          /\ manuscripts'[request.id].status = UNDER_REVIEW
          /\ manuscripts'[request.id].submittedBy
               = manuscripts[request.id].submittedBy
          /\ reviews' = reviews]_vars

\* C10: a reassignment that removed a reviewer who had reviewed
C10_Witness ==
  /\ response.result = Ok
  /\ response.request.op = "assignReviewers"
  /\ \E u \in Users :
       /\ reviewed(response.request.id, u)
       /\ u \notin Range(manuscripts[response.request.id].assignedReviewers)

\* an id that resolves to an active user with role REVIEWER
activeReviewer(id) == id \in Users /\ role[id] = REVIEWER /\ isActive[id]

\* an assignReviewers of an editor or admin on a stored manuscript answers
AssignAnswered ==
  /\ Answered("assignReviewers")
  /\ response'.request.id \in ManuscriptIds
  /\ manuscripts[response'.request.id] # Null

C12_DecisionStoresAndNotifies ==
  [][Succeeded("makeDecision") =>
       LET request == response'.request
           author == manuscripts[request.id].submittedBy
       IN /\ request.decision \in {ACCEPTED, REJECTED}
          /\ manuscripts'[request.id].status = request.decision
          /\ BagToSet(response'.sent)
               = {author} \cup {u \in Users : role[u] = ADMIN}
          /\ \A u \in BagToSet(response'.sent) : response'.sent[u] = 1
          /\ \A u \in Users :
               role[u] = EDITOR => u \notin BagToSet(response'.sent)
          /\ \A u \in BagToSet(response'.sent) :
               [userId |-> u, isRead |-> FALSE] \in DOMAIN notifications']_vars

C12_Witness ==
  /\ response.result = Ok
  /\ response.request.op = "makeDecision"
  /\ response.request.decision = REJECTED
  /\ manuscripts[response.request.id].status = REJECTED
  /\ BagCardinality(response.sent) = 2

\* C13: no workflow request creates a notification before its writes of the
\* Manuscript and Review collections are done: a request that writes one of
\* them in a step has created no notification in its steps before
C13_NotificationsFollowWrites ==
  [][\A p \in Procs :
       /\ procs[p] # Idle
       /\ procs'[p] # procs[p]
       /\ manuscripts' # manuscripts \/ reviews' # reviews
       => procs[p].sent = EmptyBag]_vars

WorkflowOps ==
  {"submitManuscript", "assignReviewers", "submitReview", "makeDecision"}

\* C14: a Notification.create that fails after the write of a workflow
\* request is swallowed: the step that ends a workflow request which has
\* written the Manuscript or the Review collection answers Ok
C14_NotificationFailureIsSwallowed ==
  [][/\ response'.request.op \in WorkflowOps
     /\ response'.result # "none"
     /\ manuscripts' # manuscripts \/ reviews' # reviews
     => response'.result = Ok]_vars

\* C15: updateManuscriptStatus on a stored manuscript with one of the five
\* defined values answers Ok whatever the stored status is and changes the
\* status only: the assigned reviewers, the reviews and the notifications
\* are as before.  With no status, or with a value that is not defined, it
\* answers ValidationError and changes nothing
C15_OverrideChangesStatusOnly ==
  [][/\ Answered("updateManuscriptStatus")
     /\ response'.request.id \in ManuscriptIds
     /\ manuscripts[response'.request.id] # Null
     => LET id == response'.request.id
            status == response'.request.status
        IN IF status \in {"SUBMITTED", "UNDER_REVIEW", "DECISION_READY",
                          "ACCEPTED", "REJECTED"}
           THEN /\ response'.result = Ok
                /\ manuscripts'[id].status = status
                /\ manuscripts'[id].assignedReviewers
                     = manuscripts[id].assignedReviewers
                /\ manuscripts'[id].submittedBy = manuscripts[id].submittedBy
                /\ \A m \in ManuscriptIds \ {id} :
                     manuscripts'[m] = manuscripts[m]
                /\ response'.sent = EmptyBag
                /\ UNCHANGED <<reviews, notifications>>
           ELSE /\ response'.result = ValidationError
                /\ response'.sent = EmptyBag
                /\ UNCHANGED <<manuscripts, reviews, notifications>>]_vars

\* the override has set a reviewed manuscript back to SUBMITTED
C15_Witness ==
  /\ response.result = Ok
  /\ response.request.op = "updateManuscriptStatus"
  /\ response.request.status = SUBMITTED
  /\ manuscripts[response.request.id].status = SUBMITTED
  /\ Len(manuscripts[response.request.id].assignedReviewers) > 0
  /\ reviewsOf(reviews, response.request.id) > 0

\* C16: in every reachable state the status of every stored manuscript is
\* one of SUBMITTED, UNDER_REVIEW, DECISION_READY, ACCEPTED, REJECTED,
\* whatever the requests carry
C16_StatusIsDefined ==
  \A m \in ManuscriptIds :
     manuscripts[m] # Null =>
       manuscripts[m].status \in {"SUBMITTED", "UNDER_REVIEW", "DECISION_READY",
                                  "ACCEPTED", "REJECTED"}

\* a request for a status that is not defined has been answered
C16_Witness ==
  /\ response.request.op = "updateManuscriptStatus"
  /\ response.request.status = "PUBLISHED"
  /\ response.request.id \in ManuscriptIds
  /\ manuscripts[response.request.id] # Null
  /\ response.result = ValidationError

ErrorOutcomes ==
  {ValidationError, NotFoundError, AuthorizationError, ConflictError, StateError}

\* C17: a workflow request that ends with ValidationError, NotFoundError,
\* AuthorizationError, ConflictError or StateError has checked before it
\* writes: the step that answers leaves the Manuscript, Review and
\* Notification collections as they are, and no step of the request before
\* it has written (a request that has written does not end with an error)
C17_ErrorsLeaveTheStoresAlone ==
  [][/\ response'.request.op \in WorkflowOps
     /\ response'.result \in ErrorOutcomes
     => /\ UNCHANGED <<manuscripts, reviews, notifications>>
        /\ response'.sent = EmptyBag
        /\ \A p \in Procs :
             procs[p] # Idle /\ procs'[p] = Idle =>
               /\ procs[p].sent = EmptyBag
               /\ ~BagIn(Review(procs[p].id, procs[p].userId), reviews)
                  \/ response'.result = ConflictError]_vars

\* a decision on a manuscript that is already ACCEPTED has been refused
C17_Witness ==
  /\ response.result = StateError
  /\ response.request.op = "makeDecision"
  /\ response.request.id \in ManuscriptIds
  /\ manuscripts[response.request.id].status = ACCEPTED
  /\ reviewsOf(reviews, response.request.id) > 0

\* the count of the documents equal to n in a Notification collection
stored(collection, n) == IF n \in DOMAIN collection THEN collection[n] ELSE 0

\* C18: markAsRead and deleteNotification of a user other than the target
\* of the notification, or for an id that names no notification, answer
\* NotFoundError and leave the collection as it is; when they answer Ok the
\* caller is the target and no other user's notification is touched
C18_OnlyTheOwnerChangesOrRemoves ==
  [][/\ Answered("markAsRead") \/ Answered("deleteNotification")
     /\ response'.result # AuthorizationError
     => LET n == response'.request.notification
            u == response'.request.userId
        IN IF stored(notifications, n) > 0 /\ n.userId = u
           THEN /\ response'.result = Ok
                /\ \A m \in NotificationRefs :
                     m.userId # u =>
                       stored(notifications', m) = stored(notifications, m)
           ELSE /\ response'.result = NotFoundError
                /\ notifications' = notifications]_vars

\* a user has asked to delete a stored notification of another user
C18_Witness ==
  /\ response.request.op = "deleteNotification"
  /\ response.result = NotFoundError
  /\ stored(notifications, response.request.notification) > 0
  /\ response.request.notification.userId # response.request.userId

\* C19: markAllAsRead of user u leaves no unread notification of u, keeps
\* the notifications of u as read ones, leaves the notifications of every
\* other user as they are, and reports the unread ones as modified; called
\* again directly after, it changes nothing and reports zero
C19_MarkAllAsRead ==
  [][Answered("markAllAsRead") /\ response'.result # AuthorizationError =>
       LET u == response'.request.userId
           unread == [userId |-> u, isRead |-> FALSE]
           read == [userId |-> u, isRead |-> TRUE]
           total == stored(notifications, unread) + stored(notifications, read)
       IN /\ response'.result = Ok
          /\ stored(notifications', unread) = 0
          /\ stored(notifications', read)
               = (IF total > MaxCopies THEN MaxCopies ELSE total)
          /\ \A m \in NotificationRefs :
               m.userId # u =>
                 stored(notifications', m) = stored(notifications, m)
          /\ response'.request.count = stored(notifications, unread)
          /\ UNCHANGED <<manuscripts, reviews, isActive>>
          /\ (/\ response.request.op = "markAllAsRead"
              /\ response.result = Ok
              /\ response.request.userId = u)
             => /\ notifications' = notifications
                /\ response'.request.count = 0]_vars

\* a user with an unread notification has marked all as read while another
\* user has an unread one
C19_Witness ==
  /\ response.request.op = "markAllAsRead"
  /\ response.result = Ok
  /\ response.request.count > 0
  /\ stored(notifications, [userId |-> response.request.userId,
                            isRead |-> TRUE]) > 0
  /\ \E m \in DOMAIN notifications :
        m.userId # response.request.userId /\ ~m.isRead

\* C20: an unread notification comes into the collection only in a step of
\* submitManuscript, assignReviewers, submitReview or makeDecision
C20_OnlyTheWorkflowCreates ==
  [][(\E n \in DOMAIN notifications' :
        ~n.isRead /\ n \notin DOMAIN notifications)
     => \/ response'.request.op \in WorkflowOps
        \/ \E p \in Procs : procs'[p] # procs[p] /\ procs'[p].op \in WorkflowOps]_vars

\* the stored manuscript id has the two reviewers r1 and r2 assigned
TwoAssigned(id) ==
  /\ manuscripts[id] # Null
  /\ Range(manuscripts[id].assignedReviewers) = {"r1", "r2"}
  /\ Len(manuscripts[id].assignedReviewers) = 2

\* C21: the happy path, its requests handled one after another.  A submit
\* stores SUBMITTED; assignReviewers of two reviewers on it stores
\* UNDER_REVIEW and notifies exactly the author, the two reviewers and the
\* ADMIN and EDITOR users; the first of their reviews leaves UNDER_REVIEW,
\* the second stores DECISION_READY; makeDecision ACCEPTED then stores
\* ACCEPTED, and a makeDecision after that answers StateError
C21_HappyPath ==
  [][/\ Succeeded("submitManuscript") =>
          manuscripts'[response'.request.id].status = "SUBMITTED"
     /\ Succeeded("assignReviewers") =>
          LET request == response'.request
          IN /\ manuscripts'[request.id].status = "UNDER_REVIEW"
             /\ BagToSet(response'.sent)
                  = {manuscripts[request.id].submittedBy}
                      \cup Range(request.reviewerIds)
                      \cup {u \in Users : role[u] \in {ADMIN, EDITOR}}
     /\ (/\ Succeeded("submitReview")
         /\ TwoAssigned(response'.request.id)
         /\ response'.request.manuscript.assignedReviewers
              = manuscripts[response'.request.id].assignedReviewers
         /\ manuscripts[response'.request.id].status = "UNDER_REVIEW"
         /\ \A u \in Users : copies(response'.request.id, u) <= 1) =>
          LET id == response'.request.id
          IN manuscripts'[id].status =
               IF reviewed(id, "r1") /\ reviewed(id, "r2")
               THEN "DECISION_READY" ELSE "UNDER_REVIEW"
     /\ (/\ Answered("makeDecision")
         /\ response'.request.id \in ManuscriptIds
         /\ manuscripts[response'.request.id] # Null
         /\ response'.request.decision = "ACCEPTED") =>
          LET id == response'.request.id
          IN IF manuscripts[id].status = "DECISION_READY"
             THEN response'.result = Ok /\ manuscripts'[id].status = "ACCEPTED"
             ELSE response'.result = StateError /\ UNCHANGED manuscripts]_vars

\* the end of the happy path: r1 and r2 have reviewed once each, the
\* manuscript is ACCEPTED, and a further makeDecision was answered StateError
C21_Witness ==
  /\ response.request.op = "makeDecision"
  /\ response.result = StateError
  /\ response.request.id \in ManuscriptIds
  /\ TwoAssigned(response.request.id)
  /\ manuscripts[response.request.id].status = ACCEPTED
  /\ copies(response.request.id, "r1") = 1
  /\ copies(response.request.id, "r2") = 1

\* the roles the manuscript router lets through to each handler
AllowedRoles ==
  [submitManuscript |-> {"author"},
   submitReview |-> {"reviewer"},
   assignReviewers |-> {"editor", "admin"},
   updateManuscriptStatus |-> {"editor", "admin"},
   makeDecision |-> {"editor", "admin"}]

SavesDecisionReady(p) ==
  /\ procs[p].op = "submitReview"
  /\ procs[p].pc = "save"
  /\ procs'[p] = Idle
  /\ procs[p].manuscript.status = DECISION_READY
  /\ manuscripts'[procs[p].id].status = DECISION_READY

Missed(id, ms, rs, ps) ==
  /\ \A p \in Procs : ps[p] = Idle
  /\ ms[id] # Null
  /\ ms[id].status = UNDER_REVIEW
  /\ Len(ms[id].assignedReviewers) > 0
  /\ reviewsOf(rs, id) >= Len(ms[id].assignedReviewers)

\* C24: a submitReview can end with the escalation missed (all requests
\* finished, reviews >= assigned reviewers, status UNDER_REVIEW), and when
\* one does, the assigned set was replaced while it ran: the set it read at
\* its start, which it compared the count with, is not the stored one
C24_MissedEscalationByReassignment ==
  [][/\ Succeeded("submitReview")
     /\ Missed(response'.request.id, manuscripts', reviews', procs')
     => response'.request.manuscript.assignedReviewers
          # manuscripts'[response'.request.id].assignedReviewers]_vars

\* a submitReview that ran while the assigned set was replaced has ended
\* with the escalation missed
C24_Witness ==
  /\ response.request.op = "submitReview"
  /\ response.result = Ok
  /\ Missed(response.request.id, manuscripts, reviews, procs)
  /\ response.request.manuscript.assignedReviewers
       # manuscripts[response.request.id].assignedReviewers
  /\ \A u \in Users : copies(response.request.id, u) <= 1

\* C25: the lookup and the insert of submitReview are separate steps and
\* the insert is never refused: a request past its lookup inserts its review
\* also when the pair has one by then, leaving two, and goes on; and the
\* comparison of the escalation counts every review of the manuscript, both
\* of a pair included
C25_DoubleInsert ==
  [][\A p \in Procs :
       /\ (procs[p].op = "submitReview" /\ procs[p].pc = "createReview"
           /\ procs'[p] # procs[p]) =>
            /\ stored(reviews', Review(procs[p].id, procs[p].userId))
                 = copies(procs[p].id, procs[p].userId) + 1
            /\ procs'[p].pc = "count"
       /\ (procs[p].op = "submitReview" /\ procs[p].pc = "count"
           /\ procs'[p] # procs[p]
           /\ reviewsOf(reviews, procs[p].id)
                >= Len(procs[p].manuscript.assignedReviewers)) =>
            /\ procs'[p].pc = "save"
            /\ procs'[p].manuscript.status = DECISION_READY]_vars

\* two requests of one reviewer have both succeeded and left two reviews of
\* the pair, which made two of two although the other reviewer has none
C25_Witness ==
  /\ response.request.op = "submitReview"
  /\ response.result = Ok
  /\ \A p \in Procs : procs[p] = Idle
  /\ copies(response.request.id, response.request.userId) = 2
  /\ Len(manuscripts[response.request.id].assignedReviewers) = 2
  /\ reviewsOf(reviews, response.request.id) = 2
  /\ manuscripts[response.request.id].status = DECISION_READY

\* manuscript id is UNDER_REVIEW, every reviewer of its assigned set has
\* reviewed it, and no request is past the lookup of its review
Stuck(id) ==
  /\ manuscripts[id] # Null
  /\ manuscripts[id].status = UNDER_REVIEW
  /\ \A u \in Range(manuscripts[id].assignedReviewers) : reviewed(id, u)
  /\ \A p \in Procs : procs[p].pc \in {"idle", "findReview"}

\* C26: assignReviewers stores UNDER_REVIEW also when every reviewer of the
\* new set has reviewed the manuscript already.  From then on, the requests
\* handled one after another, every submitReview on it is answered
\* ConflictError or AuthorizationError, and the manuscript stays as it is
\* until an assignReviewers or an updateManuscriptStatus succeeds
C26_NoRecomputeOnAssign ==
  [][/\ Succeeded("assignReviewers") =>
          manuscripts'[response'.request.id].status = UNDER_REVIEW
     /\ \A id \in ManuscriptIds :
          (/\ Stuck(id)
           /\ ~Succeeded("assignReviewers")
           /\ ~Succeeded("updateManuscriptStatus")) =>
             /\ Stuck(id)'
             /\ manuscripts'[id] = manuscripts[id]
             /\ reviewsOf(reviews', id) = reviewsOf(reviews, id)
             /\ (Answered("submitReview") /\ response'.request.id = id) =>
                  response'.result \in {ConflictError, AuthorizationError}]_vars

\* after a reassignment to a reviewer who had reviewed, a submitReview of
\* that reviewer was answered ConflictError, the status UNDER_REVIEW
C26_Witness ==
  /\ response.request.op = "submitReview"
  /\ response.result = ConflictError
  /\ Stuck(response.request.id)
  /\ reviewsOf(reviews, response.request.id)
       >= Len(manuscripts[response.request.id].assignedReviewers)
  /\ \E u \in Users :
        /\ reviewed(response.request.id, u)
        /\ u \notin Range(manuscripts[response.request.id].assignedReviewers)

\* C27: when updateManuscriptStatus is never used, in every reachable state
\* the status of a stored manuscript is SUBMITTED exactly when no reviewer
\* is assigned to it, and so no submitReview past its checks has loaded a
\* SUBMITTED manuscript: the branch SUBMITTED -> UNDER_REVIEW is not taken
C27_SubmittedIffUnassigned ==
  /\ \A m \in ManuscriptIds :
        manuscripts[m] # Null =>
          (manuscripts[m].status = SUBMITTED
             <=> Len(manuscripts[m].assignedReviewers) = 0)
  /\ \A p \in Procs :
        procs[p].op = "submitReview" =>
          /\ procs[p].manuscript.status # SUBMITTED
          /\ Len(procs[p].manuscript.assignedReviewers) > 0

\* a submitReview is about to compare the counts for a manuscript with
\* reviewers assigned, while another request reassigned it
C27_Witness ==
  \E p \in Procs :
     /\ At(p, "submitReview", "count")
     /\ manuscripts[procs[p].id].status = UNDER_REVIEW
     /\ procs[p].manuscript.assignedReviewers
          # manuscripts[procs[p].id].assignedReviewers

\* C28: when the reviewers of a manuscript are assigned once and the
\* override is not used, however the submitReview requests interleave, the
\* escalation is not missed: once every request has finished, a manuscript
\* with as many reviews as assigned reviewers is not UNDER_REVIEW, and one
\* each of whose assigned reviewers has reviewed is DECISION_READY or decided
C28_EscalationNotMissed ==
  \A m \in ManuscriptIds :
     /\ ~Missed(m, manuscripts, reviews, procs)
     /\ (/\ \A p \in Procs : procs[p] = Idle
         /\ manuscripts[m] # Null
         /\ Len(manuscripts[m].assignedReviewers) > 0
         /\ \A u \in Range(manuscripts[m].assignedReviewers) : reviewed(m, u))
        => manuscripts[m].status \in {"DECISION_READY", "ACCEPTED", "REJECTED"}

\* both assigned reviewers have reviewed once, the last request has
\* answered, and the manuscript is DECISION_READY
C28_Witness ==
  /\ \A p \in Procs : procs[p] = Idle
  /\ response.request.op = "submitReview"
  /\ response.result = Ok
  /\ TwoAssigned(response.request.id)
  /\ copies(response.request.id, "r1") = 1
  /\ copies(response.request.id, "r2") = 1
  /\ manuscripts[response.request.id].status = DECISION_READY

\* C29: a request of a user whose isActive is false when it arrives is
\* answered 403 by protect, on every route, and changes nothing; no handler
\* is entered for such a user.  deactivateUser leaves the manuscripts as
\* they are: the user stays in the assigned sets
C29_InactiveIsRejected ==
  [][/\ (response'.result # "none" /\ response'.request.userId \in Users
         /\ ~isActive[response'.request.userId]) =>
          /\ response'.result = AuthorizationError
          /\ UNCHANGED <<manuscripts, reviews, notifications, isActive, procs>>
     /\ \A p \in Procs :
          (procs[p] = Idle /\ procs'[p] # Idle) => isActive[procs'[p].userId]
     /\ Succeeded("deactivateUser") =>
          /\ ~isActive'[response'.request.id]
          /\ UNCHANGED <<manuscripts, reviews, notifications>>]_vars

\* a reviewer deactivated after the assignment has asked to submit the
\* review and got 403, and is still in the assigned set
C29_Witness ==
  /\ response.request.op = "submitReview"
  /\ response.result = AuthorizationError
  /\ ~isActive[response.request.userId]
  /\ \E m \in ManuscriptIds :
        /\ manuscripts[m].status = UNDER_REVIEW
        /\ response.request.userId \in Range(manuscripts[m].assignedReviewers)
        /\ ~reviewed(m, response.request.userId)

\* C30: the pendingReviews that getReviewerStats returns is never negative
C30_PendingReviewsNotNegative ==
  (response.request.op = "getReviewerStats" /\ response.result = Ok)
    => response.request.count >= 0

====
